---------------------------- MODULE Spec2Model ----------------------------
(***************************************************************************)
(* A model of function_app.py: six HTTP handlers that read the tables      *)
(* sites(site_id, site_name) and metricdata(siteid, recordedat,            *)
(* total_emissions_s1_and_s2, edc, pue) through psycopg2 and answer JSON.  *)
(*                                                                         *)
(* One request is served at a time.  Each handler is followed statement by *)
(* statement: the variable pc is the handler's position, and the other     *)
(* per-request variables are its locals, its log lines and what it did to  *)
(* the connection and the cursor.                                          *)
(***************************************************************************)
EXTENDS Integers, Sequences, FiniteSets, Bags, TLC

VARIABLES
    database_url,   \* os.getenv("DATABASE_URL"): None or a string
    sites,          \* the table sites: a set of rows, unique by site_id
    metricdata,     \* the table metricdata: its rows in heap order
    dbFault,        \* what the database server refuses: see Faults
    handler,        \* the handler serving the current request
    site_id,        \* req.params.get('site_id') of the current request
    pc,             \* position in the handler
    conn,           \* the psycopg2 connection of this request
    cursor,         \* the cursor of this request
    attempts,       \* calls of get_db_connection in this request
    statements,     \* statements sent to the server in this request
    locals,         \* the handler's local variables
    exc,            \* the exception being propagated or handled
    log,            \* logging.info / logging.error lines of this request
    response        \* the func.HttpResponse built by the handler

vars == <<database_url, sites, metricdata, dbFault, handler, site_id, pc, conn,
          cursor, attempts, statements, locals, exc, log, response>>

envVars == <<database_url, sites, metricdata, dbFault>>

---------------------------------------------------------------------------
(* Values *)

\* Python's None, and a Python str as the sequence of its characters.
None == [isNone |-> TRUE]

Str(s) == [isNone |-> FALSE, text |-> s]

\* Python truthiness of an Optional[str]: None and "" are falsy.
Truthy(v) == IF v.isNone THEN FALSE ELSE v.text # <<>>

\* SQL NULL, and a non-null SQL value.
Null == <<>>

Some(v) == <<v>>

IsNull(x) == x = <<>>

\* A JSON number written by json.dumps: a Python int, or a Python float.
PyInt(n) == [float |-> FALSE, v |-> n]

PyFloat(n) == [float |-> TRUE, v |-> n]

Min(a, b) == IF a < b THEN a ELSE b

Range(s) == {s[i] : i \in DOMAIN s}

SeqToBag(s) == [x \in Range(s) |-> Cardinality({i \in DOMAIN s : s[i] = x})]

Reverse(s) == [i \in 1..Len(s) |-> s[Len(s) + 1 - i]]

---------------------------------------------------------------------------
(* Bounds and the inputs drawn from them *)

\* recordedat takes the values 1..MaxTime (and NULL).
MaxTime == 3

\* site_id values of the table sites are drawn from 1..MaxSiteId; metricdata
\* rows may also carry MaxSiteId + 1, which matches no site.
MaxSiteId == 2

\* LIMIT 50 of FetchRecentMetricData and LIMIT 10 of GetSiteById.
RecentLimit == 50

SiteLimit == 10

SiteName(i) == IF i = 1 THEN "Dublin-1" ELSE "Site-" \o ToString(i)

SiteRows == {[site_id |-> i, site_name |-> SiteName(i)] : i \in 1..MaxSiteId}

\* The three metric columns of a row, each NULL, zero or non-zero in one of them.
MetricTriples ==
    { [emissions |-> Null,     edc |-> Some(0),  pue |-> Some(14)],
      [emissions |-> Some(14), edc |-> Null,     pue |-> Some(0)],
      [emissions |-> Some(0),  edc |-> Some(14), pue |-> Null] }

Nullable(S) == {Null} \cup {Some(v) : v \in S}

MetricRow(s, t, m) ==
    [siteid |-> s, recordedat |-> t,
     total_emissions_s1_and_s2 |-> m.emissions, edc |-> m.edc, pue |-> m.pue]

RowKinds ==
    { MetricRow(s, t, m) : s \in Nullable(1..(MaxSiteId + 1)),
                           t \in Nullable(1..MaxTime),
                           m \in MetricTriples }

\* The row a bulk load repeats.
BulkRow == MetricRow(Some(1), Some(2), [emissions |-> Null, edc |-> Some(0), pue |-> Some(14)])

BulkSizes == {0, 1, SiteLimit + 1, RecentLimit + 1}

\* A row that may follow: of the last site, at the earliest or the latest time.
LateRows ==
    { MetricRow(Some(MaxSiteId), Some(t), [emissions |-> Some(14), edc |-> Null, pue |-> Some(0)]) :
        t \in {1, MaxTime} }

\* metricdata: a bulk of equal rows, then at most one row of any kind, then at
\* most one late row.
ExtraRows ==
    {<<>>} \cup {<<r>> : r \in RowKinds} \cup {<<r, q>> : r \in RowKinds, q \in LateRows}

MetricTables == { [i \in 1..n |-> BulkRow] \o x : n \in BulkSizes, x \in ExtraRows }

UrlValues == {None, Str(<<>>), Str(<<"p", "g">>)}

\* The server accepts everything ("none"), refuses the connection, or fails
\* the first or the second statement of a request.
Faults == {"none", "connect", "query1", "query2"}

\* The values of the query parameter site_id: missing, empty, decimal
\* numerals (one with a leading zero) and two that are not numerals.
SiteIdInputs ==
    {None} \cup
    { Str(s) : s \in { <<>>, <<"1">>, <<"2">>, <<"0", "1">>, <<"3">>,
                       <<"a">>, <<"1", "a">> } }

---------------------------------------------------------------------------
(* The relational store: what PostgreSQL answers to the six statements *)

Digits == {"0", "1", "2", "3", "4", "5", "6", "7", "8", "9"}

DigitValue(c) ==
    CASE c = "0" -> 0 [] c = "1" -> 1 [] c = "2" -> 2 [] c = "3" -> 3
      [] c = "4" -> 4 [] c = "5" -> 5 [] c = "6" -> 6 [] c = "7" -> 7
      [] c = "8" -> 8 [] c = "9" -> 9

RECURSIVE Decimal(_)
Decimal(s) ==
    IF s = <<>> THEN 0
    ELSE 10 * Decimal(SubSeq(s, 1, Len(s) - 1)) + DigitValue(s[Len(s)])

\* The parameter %s is bound as a quoted string; compared with the integer
\* column site_id the server reads it as an integer: Some(n), or Null when
\* the text is no numeral ("invalid input syntax for type integer").
PgInt4In(s) ==
    IF s # <<>> /\ \A i \in DOMAIN s : s[i] \in Digits
    THEN Some(Decimal(s))
    ELSE Null

\* ORDER BY x DESC: NULL sorts before every value (PostgreSQL's default).
DescBefore(a, b) == IsNull(a) \/ (~IsNull(b) /\ a[1] >= b[1])

RECURSIVE InsertByRecordedAt(_, _)
InsertByRecordedAt(r, s) ==
    IF s = <<>> THEN <<r>>
    ELSE IF DescBefore(Head(s).recordedat, r.recordedat)
         THEN <<Head(s)>> \o InsertByRecordedAt(r, Tail(s))
         ELSE <<r>> \o s

\* Mutant: the ORDER BY clause dropped.
OrderByRecordedAt_Dropped(s) == s

RECURSIVE OrderByRecordedAtDesc(_)
OrderByRecordedAtDesc(s) ==
    IF s = <<>> THEN <<>>
    ELSE InsertByRecordedAt(s[Len(s)], OrderByRecordedAtDesc(SubSeq(s, 1, Len(s) - 1)))

\* Mutant: LIMIT taken one row too far.
Limit_OffByOne(s, n) == SubSeq(s, 1, Min(n + 1, Len(s)))

Limit(s, n) == SubSeq(s, 1, Min(n, Len(s)))

Coalesce(x, d) == IF IsNull(x) THEN d ELSE x[1]

\* ORDER BY site_id of a set of rows with distinct site_id.
RECURSIVE OrderBySiteId(_)
OrderBySiteId(S) ==
    IF S = {} THEN <<>>
    ELSE LET r == CHOOSE x \in S : \A y \in S : x.site_id <= y.site_id
         IN  <<r>> \o OrderBySiteId(S \ {r})

\* SELECT site_id, site_name FROM sites ORDER BY site_id
AllSitesQuery(st) == OrderBySiteId(st)

\* Mutant: the INNER JOIN written as a LEFT JOIN.
ActiveSitesQuery_LeftJoin(st, md) == OrderBySiteId(st)

\* SELECT DISTINCT s.site_id, s.site_name FROM sites s INNER JOIN metricdata m
\* ON s.site_id = m.siteid WHERE s.site_id IS NOT NULL ORDER BY s.site_id
ActiveSitesQuery(st, md) ==
    OrderBySiteId({s \in st : \E i \in DOMAIN md : md[i].siteid = Some(s.site_id)})

\* SELECT COUNT(*) FROM metricdata
CountQuery(md) == Len(md)

\* s.site_name of the LEFT JOIN: NULL when no site matches.
JoinedSiteName(st, sid) ==
    IF \E s \in st : Some(s.site_id) = sid
    THEN Some((CHOOSE s \in st : Some(s.site_id) = sid).site_name)
    ELSE Null

HasSiteId(r) == ~IsNull(r.siteid)

\* The SELECT of FetchRecentMetricData over the rows as the scan yields them.
RecentMetricQuery(st, scan) ==
    LET kept == Limit(OrderByRecordedAtDesc(SelectSeq(scan, HasSiteId)), RecentLimit)
    IN  [i \in 1..Len(kept) |->
           << kept[i].siteid[1],
              JoinedSiteName(st, kept[i].siteid),
              kept[i].recordedat,
              Coalesce(kept[i].total_emissions_s1_and_s2, 0),
              Coalesce(kept[i].edc, 0),
              Coalesce(kept[i].pue, 0) >>]

\* Mutant: the WHERE clause dropped, fetchone() takes the first site.
SiteByIdQuery_NoWhere(st, id) ==
    IF st # {}
    THEN LET s == CHOOSE x \in st : \A y \in st : x.site_id <= y.site_id
         IN  Some(<<s.site_id, s.site_name>>)
    ELSE Null

\* SELECT site_id, site_name FROM sites WHERE site_id = %s; fetchone()
SiteByIdQuery(st, id) ==
    IF \E s \in st : s.site_id = id
    THEN LET s == CHOOSE x \in st : x.site_id = id IN Some(<<s.site_id, s.site_name>>)
    ELSE Null

\* The second SELECT of GetSiteById over the rows as the scan yields them.
SiteMetricsQuery(scan, id) ==
    LET OfSite(r) == r.siteid = Some(id)
        kept == Limit(OrderByRecordedAtDesc(SelectSeq(scan, OfSite)), SiteLimit)
    IN  [i \in 1..Len(kept) |->
           << kept[i].recordedat,
              Coalesce(kept[i].total_emissions_s1_and_s2, 0),
              Coalesce(kept[i].edc, 0),
              Coalesce(kept[i].pue, 0) >>]

\* Rows of equal recordedat come in the order of the scan, which the server
\* chooses: the heap order or its reverse.
Scans(md) == {md, Reverse(md)}

---------------------------------------------------------------------------
(* Row shaping *)

\* row.strftime("%Y-%m-%d %H:%M:%S") if row else "N/A"
RecordedAt(t) ==
    IF ~IsNull(t) THEN "2024-01-0" \o ToString(t[1]) \o " 10:00:00" ELSE "N/A"

\* float(x) if x else 0
FloatOrZero(x) == IF x # 0 THEN PyFloat(x) ELSE PyInt(0)

ShapeSite(row) == [siteId |-> row[1], siteName |-> row[2]]

ShapeSites(rows) == [i \in 1..Len(rows) |-> [siteId |-> rows[i].site_id, siteName |-> rows[i].site_name]]

ShapeRecentRow(row) ==
    [siteId |-> row[1],
     siteName |-> IF ~IsNull(row[2]) THEN row[2][1] ELSE "Unknown",
     recordedAt |-> RecordedAt(row[3]),
     emissions |-> FloatOrZero(row[4]),
     energyConsumption |-> FloatOrZero(row[5]),
     powerUsageEffectiveness |-> FloatOrZero(row[6])]

ShapeSiteMetricRow(row) ==
    [recordedAt |-> RecordedAt(row[1]),
     emissions |-> FloatOrZero(row[2]),
     energyConsumption |-> FloatOrZero(row[3]),
     powerUsageEffectiveness |-> FloatOrZero(row[4])]

---------------------------------------------------------------------------
(* Per-request state *)

NoConnection == [state |-> "none", txn |-> "none"]

NoLocals ==
    [sites |-> <<>>, total_records |-> 0, db_version |-> "",
     recent_data |-> <<>>, site_info |-> <<>>, recent_metrics |-> <<>>]

\* No func.HttpResponse has been built yet.
NoResponse == [status |-> 0, body |-> [none |-> TRUE]]

HttpResponse(code, b) == [status |-> code, body |-> b]

DbHandlers ==
    {"GetAllSites", "GetActiveSites", "DatabaseTest", "FetchRecentMetricData",
     "GetSiteById"}

\* The exception classes that derive from psycopg2.Error.
Psycopg2Errors == {"OperationalError", "DatabaseError", "DataError"}

\* The tables on which the fault scenarios are explored: fault handling reads no row.
FaultTables == {[i \in 1..n |-> BulkRow] : n \in {0, 1}}

Healthy == Truthy(database_url) /\ dbFault = "none"

Init ==
    /\ database_url \in UrlValues
    /\ dbFault \in Faults
    /\ sites \in SUBSET SiteRows
    /\ metricdata \in MetricTables
    /\ (Healthy \/ metricdata \in FaultTables)
    /\ handler = "none"
    /\ site_id = None
    /\ pc = "idle"
    /\ conn = NoConnection
    /\ cursor = "none"
    /\ attempts = 0
    /\ statements = 0
    /\ locals = NoLocals
    /\ exc = "none"
    /\ log = <<>>
    /\ response = NoResponse

\* The host hands a new request to handler h: fresh locals, and the
\* handler's first statement, logging.info.
Trigger(h, p) ==
    /\ pc \in {"idle", "done"}
    /\ handler' = h
    /\ site_id' = p
    /\ conn' = NoConnection
    /\ cursor' = "none"
    /\ attempts' = 0
    /\ statements' = 0
    /\ locals' = NoLocals
    /\ exc' = "none"
    /\ log' = <<[level |-> "info", msg |-> h \o " function triggered."]>>
    /\ UNCHANGED envVars

\* A statement raises e inside the with block.
RaiseInWith(e) ==
    /\ exc' = e
    /\ pc' = "exit_with"
    /\ UNCHANGED <<locals, cursor, response>>

\* cursor.execute: the statement reaches the server and opens a transaction.
Execute ==
    /\ statements' = statements + 1
    /\ conn' = [conn EXCEPT !.txn = "open"]

---------------------------------------------------------------------------
(* get_db_connection and the with block, the same in the five handlers *)

get_db_connection ==
    /\ pc = "connect"
    /\ attempts' = attempts + 1
    /\ IF ~Truthy(database_url)
       THEN exc' = "ValueError" /\ pc' = "except" /\ UNCHANGED conn
       ELSE IF dbFault = "connect"
            THEN exc' = "OperationalError" /\ pc' = "except" /\ UNCHANGED conn
            ELSE conn' = [state |-> "open", txn |-> "none"] /\ pc' = "cursor"
                 /\ UNCHANGED exc
    /\ UNCHANGED <<envVars, handler, site_id, cursor, statements, locals, log, response>>

\* cursor = conn.cursor()
OpenCursor ==
    /\ pc = "cursor"
    /\ cursor' = "open"
    /\ pc' = "execute1"
    /\ UNCHANGED <<envVars, handler, site_id, conn, attempts, statements, locals,
                   exc, log, response>>

\* cursor.close(), the last statement of the with block
CloseCursor ==
    /\ pc = "close"
    /\ cursor' = "closed"
    /\ pc' = "exit_with"
    /\ UNCHANGED <<envVars, handler, site_id, conn, attempts, statements, locals,
                   exc, log, response>>

\* What connection.__exit__ does to the connection: psycopg2 commits, or rolls
\* back when an exception leaves the block; it does not close the connection.
ConnectionExit(c, e) ==
    [c EXCEPT !.txn = IF c.txn = "none" THEN "none"
                      ELSE IF e = "none" THEN "committed" ELSE "rolled back"]

\* Leaving "with get_db_connection() as conn": by an exception, by the
\* return of the 404 response, or by falling off the end of the block.
ExitWith ==
    /\ pc = "exit_with"
    /\ conn' = ConnectionExit(conn, exc)
    /\ pc' = IF exc # "none" THEN "except"
             ELSE IF response.status # 0 THEN "done" ELSE "respond"
    /\ UNCHANGED <<envVars, handler, site_id, cursor, attempts, statements, locals,
                   exc, log, response>>

---------------------------------------------------------------------------
(* The except clauses *)

ErrorLogPrefix(h, e) ==
    CASE h \in {"GetAllSites", "GetActiveSites"} ->
            IF e \in Psycopg2Errors THEN "PostgreSQL error" ELSE "General error"
      [] h = "DatabaseTest" -> "Database test error"
      [] h = "FetchRecentMetricData" -> "FetchRecentMetricData error"
      [] h = "GetSiteById" -> "GetSiteById error"

\* Mutant: the two listing handlers answer database_error for every exception.
ErrorType_AlwaysDatabaseError(h, e) ==
    CASE h \in {"GetAllSites", "GetActiveSites"} -> "database_error"
      [] h = "DatabaseTest" -> "database_connection_error"
      [] h = "FetchRecentMetricData" -> "data_fetch_error"
      [] h = "GetSiteById" -> "site_fetch_error"

ErrorType(h, e) ==
    CASE h \in {"GetAllSites", "GetActiveSites"} ->
            IF e \in Psycopg2Errors THEN "database_error" ELSE "general_error"
      [] h = "DatabaseTest" -> "database_connection_error"
      [] h = "FetchRecentMetricData" -> "data_fetch_error"
      [] h = "GetSiteById" -> "site_fetch_error"

\* Mutant: the except clause builds its response without logging.
LogError_Dropped(l, h, e) == l

\* The log lines after the except clause's logging.error.
LogError(l, h, e) == Append(l, [level |-> "error", msg |-> ErrorLogPrefix(h, e)])

\* except ... as e: logging.error(...)
Except ==
    /\ pc = "except"
    /\ log' = LogError(log, handler, exc)
    /\ pc' = "respond_error"
    /\ UNCHANGED <<envVars, handler, site_id, conn, cursor, attempts, statements,
                   locals, exc, response>>

\* return func.HttpResponse(json.dumps({...}), status_code=500, ...)
ErrorResponse ==
    /\ pc = "respond_error"
    /\ response' = HttpResponse(500, [error |-> exc, type |-> ErrorType(handler, exc)])
    /\ pc' = "done"
    /\ UNCHANGED <<envVars, handler, site_id, conn, cursor, attempts, statements,
                   locals, exc, log>>

---------------------------------------------------------------------------
(* 1. GetAllSites *)

GetAllSites ==
    /\ Trigger("GetAllSites", None)
    /\ response' = NoResponse
    /\ pc' = "connect"

GetAllSites_execute ==
    /\ pc = "execute1" /\ handler = "GetAllSites"
    /\ Execute
    /\ IF dbFault = "query1"
       THEN RaiseInWith("DatabaseError")
       ELSE /\ locals' = [locals EXCEPT !.sites = ShapeSites(AllSitesQuery(sites))]
            /\ pc' = "close"
            /\ UNCHANGED <<cursor, exc, response>>
    /\ UNCHANGED <<envVars, handler, site_id, attempts, log>>

GetAllSites_body(l) ==
    [status |-> "success", sites |-> l.sites, totalSites |-> Len(l.sites)]

---------------------------------------------------------------------------
(* 2. GetActiveSites *)

GetActiveSites ==
    /\ Trigger("GetActiveSites", None)
    /\ response' = NoResponse
    /\ pc' = "connect"

GetActiveSites_execute ==
    /\ pc = "execute1" /\ handler = "GetActiveSites"
    /\ Execute
    /\ IF dbFault = "query1"
       THEN RaiseInWith("DatabaseError")
       ELSE /\ locals' = [locals EXCEPT
                            !.sites = ShapeSites(ActiveSitesQuery(sites, metricdata))]
            /\ pc' = "execute2"
            /\ UNCHANGED <<cursor, exc, response>>
    /\ UNCHANGED <<envVars, handler, site_id, attempts, log>>

GetActiveSites_count ==
    /\ pc = "execute2" /\ handler = "GetActiveSites"
    /\ Execute
    /\ IF dbFault = "query2"
       THEN RaiseInWith("DatabaseError")
       ELSE /\ locals' = [locals EXCEPT !.total_records = CountQuery(metricdata)]
            /\ pc' = "close"
            /\ UNCHANGED <<cursor, exc, response>>
    /\ UNCHANGED <<envVars, handler, site_id, attempts, log>>

GetActiveSites_body(l) ==
    [status |-> "success", activeSites |-> l.sites,
     totalActiveSites |-> Len(l.sites), totalRecords |-> l.total_records]

---------------------------------------------------------------------------
(* 3. ConnectivityTest *)

\* Mutant: "Set" if os.getenv("DATABASE_URL") is not None.
EnvironmentCheck_IsNotNone(url) == IF url.isNone THEN "Not set" ELSE "Set"

EnvironmentCheck(url) == IF Truthy(url) THEN "Set" ELSE "Not set"

ConnectivityTest ==
    /\ Trigger("ConnectivityTest", None)
    /\ response' = HttpResponse(200,
          [message |-> "Azure Function is working!",
           environment_check |-> [DATABASE_URL |-> EnvironmentCheck(database_url)]])
    /\ pc' = "done"

---------------------------------------------------------------------------
(* 4. DatabaseTest *)

DatabaseTest ==
    /\ Trigger("DatabaseTest", None)
    /\ response' = NoResponse
    /\ pc' = "connect"

DatabaseTest_execute ==
    /\ pc = "execute1" /\ handler = "DatabaseTest"
    /\ Execute
    /\ IF dbFault = "query1"
       THEN RaiseInWith("DatabaseError")
       ELSE /\ locals' = [locals EXCEPT !.db_version = "PostgreSQL"]
            /\ pc' = "close"
            /\ UNCHANGED <<cursor, exc, response>>
    /\ UNCHANGED <<envVars, handler, site_id, attempts, log>>

DatabaseTest_body(l) ==
    [message |-> "Database connection successful!", database_version |-> l.db_version]

---------------------------------------------------------------------------
(* 5. FetchRecentMetricData *)

ShapeRecent(rows) == [i \in 1..Len(rows) |-> ShapeRecentRow(rows[i])]

FetchRecentMetricData ==
    /\ Trigger("FetchRecentMetricData", None)
    /\ response' = NoResponse
    /\ pc' = "connect"

FetchRecentMetricData_execute ==
    /\ pc = "execute1" /\ handler = "FetchRecentMetricData"
    /\ Execute
    /\ IF dbFault = "query1"
       THEN RaiseInWith("DatabaseError")
       ELSE /\ \E scan \in Scans(metricdata) :
                 locals' = [locals EXCEPT
                              !.recent_data = ShapeRecent(RecentMetricQuery(sites, scan))]
            /\ pc' = "close"
            /\ UNCHANGED <<cursor, exc, response>>
    /\ UNCHANGED <<envVars, handler, site_id, attempts, log>>

FetchRecentMetricData_body(l) ==
    [recentData |-> l.recent_data, dataPoints |-> Len(l.recent_data)]

---------------------------------------------------------------------------
(* 6. GetSiteById *)

ShapeSiteMetrics(rows) == [i \in 1..Len(rows) |-> ShapeSiteMetricRow(rows[i])]

\* Mutant: if site_id is None.
ParamMissing_IsNone(p) == p.isNone

\* if not site_id: the parameter is missing or empty
ParamMissing(p) == ~Truthy(p)

GetSiteById ==
    \E p \in SiteIdInputs :
        /\ Trigger("GetSiteById", p)
        /\ IF ParamMissing(p)
           THEN /\ response' = HttpResponse(400,
                       [error |-> "site_id parameter is required",
                        usage |-> "Add ?site_id=<site_id> to the URL"])
                /\ pc' = "done"
           ELSE /\ response' = NoResponse
                /\ pc' = "connect"

\* The first SELECT, fetchone(), and the not-found return inside the with block.
GetSiteById_execute ==
    /\ pc = "execute1" /\ handler = "GetSiteById"
    /\ Execute
    /\ IF IsNull(PgInt4In(site_id.text))
       THEN RaiseInWith("DataError")
       ELSE IF dbFault = "query1"
       THEN RaiseInWith("DatabaseError")
       ELSE LET site_row == SiteByIdQuery(sites, PgInt4In(site_id.text)[1])
            IN  IF IsNull(site_row)
                THEN /\ cursor' = "closed"
                     /\ response' = HttpResponse(404, [error |-> "Site not found"])
                     /\ pc' = "exit_with"
                     /\ UNCHANGED <<locals, exc>>
                ELSE /\ locals' = [locals EXCEPT !.site_info = ShapeSite(site_row[1])]
                     /\ pc' = "execute2"
                     /\ UNCHANGED <<cursor, exc, response>>
    /\ UNCHANGED <<envVars, handler, site_id, attempts, log>>

GetSiteById_metrics ==
    /\ pc = "execute2" /\ handler = "GetSiteById"
    /\ Execute
    /\ IF dbFault = "query2"
       THEN RaiseInWith("DatabaseError")
       ELSE /\ \E scan \in Scans(metricdata) :
                 locals' = [locals EXCEPT !.recent_metrics =
                    ShapeSiteMetrics(SiteMetricsQuery(scan, PgInt4In(site_id.text)[1]))]
            /\ pc' = "close"
            /\ UNCHANGED <<cursor, exc, response>>
    /\ UNCHANGED <<envVars, handler, site_id, attempts, log>>

GetSiteById_body(l) ==
    [status |-> "success", site |-> l.site_info,
     recentMetrics |-> l.recent_metrics, metricsCount |-> Len(l.recent_metrics)]

---------------------------------------------------------------------------
(* The success responses, built after the with block *)

SuccessBody(h, l) ==
    CASE h = "GetAllSites" -> GetAllSites_body(l)
      [] h = "GetActiveSites" -> GetActiveSites_body(l)
      [] h = "DatabaseTest" -> DatabaseTest_body(l)
      [] h = "FetchRecentMetricData" -> FetchRecentMetricData_body(l)
      [] h = "GetSiteById" -> GetSiteById_body(l)

\* return func.HttpResponse(json.dumps({...}, indent=2), status_code=200, ...)
SuccessResponse ==
    /\ pc = "respond"
    /\ response' = HttpResponse(200, SuccessBody(handler, locals))
    /\ pc' = "done"
    /\ UNCHANGED <<envVars, handler, site_id, conn, cursor, attempts, statements,
                   locals, exc, log>>

---------------------------------------------------------------------------

Next ==
    \/ GetAllSites
    \/ GetActiveSites
    \/ ConnectivityTest
    \/ DatabaseTest
    \/ FetchRecentMetricData
    \/ GetSiteById
    \/ get_db_connection
    \/ OpenCursor
    \/ GetAllSites_execute
    \/ GetActiveSites_execute
    \/ GetActiveSites_count
    \/ DatabaseTest_execute
    \/ FetchRecentMetricData_execute
    \/ GetSiteById_execute
    \/ GetSiteById_metrics
    \/ CloseCursor
    \/ ExitWith
    \/ SuccessResponse
    \/ Except
    \/ ErrorResponse

Spec == Init /\ [][Next]_vars

---------------------------------------------------------------------------
(* Properties *)

ErrorLogged == \E i \in DOMAIN log : log[i].level = "error"

UrlSet == database_url \notin {None, Str(<<>>)}

\* The site the text of the parameter site_id names, if it is a numeral.
ParamGiven == ~site_id.isNone /\ site_id.text # <<>>

RequestedPresent ==
    /\ ParamGiven
    /\ ~IsNull(PgInt4In(site_id.text))
    /\ \E s \in sites : s.site_id = PgInt4In(site_id.text)[1]

RequestedSite == CHOOSE s \in sites : s.site_id = PgInt4In(site_id.text)[1]

\* The JSON value the contract gives a metric column: 0 for NULL.
ExpectedMetric(c) == IF IsNull(c) \/ c[1] = 0 THEN PyInt(0) ELSE PyFloat(c[1])

ExpectedEntry(r) ==
    [recordedAt |-> IF IsNull(r.recordedat) THEN "N/A" ELSE RecordedAt(r.recordedat),
     emissions |-> ExpectedMetric(r.total_emissions_s1_and_s2),
     energyConsumption |-> ExpectedMetric(r.edc),
     powerUsageEffectiveness |-> ExpectedMetric(r.pue)]

MetricFields(e) ==
    [recordedAt |-> e.recordedAt, emissions |-> e.emissions,
     energyConsumption |-> e.energyConsumption,
     powerUsageEffectiveness |-> e.powerUsageEffectiveness]

\* The rank of a recordedAt text and of a recordedat column in descending
\* order: "N/A" (NULL) ranks above every time.
EntryRank(e) ==
    IF e.recordedAt = "N/A" THEN MaxTime + 1
    ELSE CHOOSE t \in 1..MaxTime : RecordedAt(Some(t)) = e.recordedAt

RowRank(r) == IF IsNull(r.recordedat) THEN MaxTime + 1 ELSE r.recordedat[1]

Descending(entries) ==
    \A i \in 1..(Len(entries) - 1) : EntryRank(entries[i]) >= EntryRank(entries[i + 1])

\* entries are the n first of rows in descending order of recordedat: for every
\* rank k, as many entries of rank k or more as rows, up to n.
MostRecent(entries, rows, n) ==
    \A k \in 1..(MaxTime + 1) :
        Cardinality({i \in DOMAIN entries : EntryRank(entries[i]) >= k})
          = Min(n, Cardinality({i \in DOMAIN rows : RowRank(rows[i]) >= k}))

HasSiteIdColumn(r) == ~IsNull(r.siteid)

RowsWithSite == SelectSeq(metricdata, HasSiteIdColumn)

IsOfRequestedSite(r) == ~IsNull(r.siteid) /\ r.siteid[1] = PgInt4In(site_id.text)[1]

RowsOfRequestedSite == SelectSeq(metricdata, IsOfRequestedSite)

(* C1: every request that acquired a connection has closed the connection
   and its cursor by the time its response is returned. *)
C1_ConnectionAndCursorReleased ==
    (pc = "done" /\ handler \in DbHandlers /\ conn.state # "none")
        => (conn.state = "closed" /\ cursor = "closed")

(* C2: a GetSiteById request whose non-empty site_id matches no row of sites
   is answered 404 (here: even when the server refuses nothing). *)
C2_AbsentSiteIs404 ==
    (pc = "done" /\ handler = "GetSiteById" /\ ParamGiven /\ Healthy
       /\ ~RequestedPresent)
        => response.status = 404

(* C3: a GetSiteById request without site_id, or with an empty one, is
   answered 400 whatever the database and DATABASE_URL are, and it calls
   neither get_db_connection nor the server. *)
C3_MissingParamIs400 ==
    (handler = "GetSiteById" /\ ~ParamGiven)
        => /\ pc = "done"
           /\ response.status = 400
           /\ attempts = 0
           /\ statements = 0
           /\ conn.state = "none"
           /\ cursor = "none"

C3_Witness ==
    /\ handler = "GetSiteById" /\ site_id = Str(<<>>)
    /\ response.status = 400
    /\ dbFault = "connect" /\ ~UrlSet

C5_MissingUrlIsDatabaseError ==
    (pc = "done" /\ ~UrlSet) =>
        /\ (handler \in DbHandlers /\ attempts > 0)
              => (response.status = 500 /\ response.body.type = "database_error")
        /\ handler = "ConnectivityTest"
              => /\ response.status = 200
                 /\ response.body.environment_check.DATABASE_URL = "Not set"

(* C5, amended: without DATABASE_URL every handler that calls
   get_db_connection answers 500, with type general_error from GetAllSites
   and GetActiveSites, database_connection_error from DatabaseTest,
   data_fetch_error from FetchRecentMetricData and site_fetch_error from
   GetSiteById; ConnectivityTest answers 200 with "Not set". *)
C5_MissingUrlIs500 ==
    (pc = "done" /\ ~UrlSet) =>
        /\ (handler \in DbHandlers /\ attempts > 0)
              => /\ response.status = 500
                 /\ response.body.type =
                      CASE handler \in {"GetAllSites", "GetActiveSites"} -> "general_error"
                        [] handler = "DatabaseTest" -> "database_connection_error"
                        [] handler = "FetchRecentMetricData" -> "data_fetch_error"
                        [] handler = "GetSiteById" -> "site_fetch_error"
        /\ handler = "ConnectivityTest"
              => /\ response.status = 200
                 /\ response.body.environment_check.DATABASE_URL = "Not set"

C5_Witness ==
    /\ pc = "done" /\ handler = "GetActiveSites"
    /\ database_url = None
    /\ response.status = 500

(* C6, as claimed: no error response (400, 404 or 500) exists without an
   error log line of the same request before it. *)
C6_EveryErrorLogged ==
    response.status \in {400, 404, 500} => ErrorLogged

(* C6, amended: every 500 response is built after the request's error log
   line; the 400 and the 404 responses are built without any. *)
C6_Every500Logged ==
    /\ pc = "respond_error" => ErrorLogged
    /\ response.status = 500 => /\ ErrorLogged
                                /\ log[Len(log)].level = "error"
    /\ response.status \in {400, 404} => ~ErrorLogged

C6_Witness ==
    /\ pc = "done" /\ handler = "GetSiteById"
    /\ response.status = 500
    /\ exc = "DatabaseError"
    /\ statements = 2

(* C7: a 200 response of FetchRecentMetricData holds at most 50 entries, each
   the entry of a metricdata row with a siteid (a row gives at most one
   entry), in descending order of recordedAt with "N/A" first, and they are
   the first 50 of those rows in that order; dataPoints is their number; a
   NULL metric column reads 0 and a NULL recordedat reads "N/A". *)
C7_RecentMetricData ==
    (handler = "FetchRecentMetricData" /\ response.status = 200) =>
        LET data == response.body.recentData
            rows == RowsWithSite
        IN  /\ Len(data) <= 50
            /\ response.body.dataPoints = Len(data)
            /\ Descending(data)
            /\ MostRecent(data, rows, 50)
            /\ SeqToBag([i \in DOMAIN data |-> <<data[i].siteId, MetricFields(data[i])>>])
                 \sqsubseteq
               SeqToBag([i \in DOMAIN rows |-> <<rows[i].siteid[1], ExpectedEntry(rows[i])>>])

C7_Witness ==
    /\ handler = "FetchRecentMetricData" /\ response.status = 200
    /\ Len(RowsWithSite) > 50
    /\ response.body.dataPoints = 50
    /\ \E i \in DOMAIN metricdata :
          /\ IsNull(metricdata[i].recordedat) /\ IsNull(metricdata[i].edc)
          /\ ~IsNull(metricdata[i].siteid)
    /\ response.body.recentData[1].recordedAt = "N/A"
    /\ response.body.recentData[1].energyConsumption = PyInt(0)

(* C8: the recentMetrics of a 200 response of GetSiteById hold at most 10
   entries, each the entry of a metricdata row of the requested site (a row
   gives at most one entry), in descending order of recordedAt, the first 10
   of that site's rows in that order; metricsCount is their number. *)
C8_SiteRecentMetrics ==
    (handler = "GetSiteById" /\ response.status = 200) =>
        LET data == response.body.recentMetrics
            rows == RowsOfRequestedSite
        IN  /\ Len(data) <= 10
            /\ response.body.metricsCount = Len(data)
            /\ Descending(data)
            /\ MostRecent(data, rows, 10)
            /\ SeqToBag([i \in DOMAIN data |-> MetricFields(data[i])])
                 \sqsubseteq
               SeqToBag([i \in DOMAIN rows |-> ExpectedEntry(rows[i])])

C8_Witness ==
    /\ handler = "GetSiteById" /\ response.status = 200
    /\ Len(RowsOfRequestedSite) > 10
    /\ response.body.metricsCount = 10
    /\ \E i \in DOMAIN metricdata :
          /\ ~IsNull(metricdata[i].siteid)
          /\ metricdata[i].siteid[1] # PgInt4In(site_id.text)[1]
          /\ RowRank(metricdata[i]) > RowRank(BulkRow)

(* C9: a 200 response of GetActiveSites lists, in ascending siteId order and
   once each, exactly the sites that have a metricdata row; totalActiveSites
   is the length of the list and at most the totalSites GetAllSites reports
   on the same tables; totalRecords counts every metricdata row. *)
C9_ActiveSites ==
    (handler = "GetActiveSites" /\ response.status = 200) =>
        LET list == response.body.activeSites
            all == GetAllSites_body([NoLocals EXCEPT !.sites = ShapeSites(AllSitesQuery(sites))])
        IN  /\ \A i \in 1..(Len(list) - 1) : list[i].siteId < list[i + 1].siteId
            /\ {<<list[i].siteId, list[i].siteName>> : i \in DOMAIN list}
                 = { <<s.site_id, s.site_name>> :
                       s \in {x \in sites : \E j \in DOMAIN metricdata :
                                              /\ ~IsNull(metricdata[j].siteid)
                                              /\ metricdata[j].siteid[1] = x.site_id} }
            /\ response.body.totalActiveSites = Len(list)
            /\ response.body.totalActiveSites <= all.totalSites
            /\ all.totalSites = Cardinality(sites)
            /\ response.body.totalRecords = Len(metricdata)

C9_Witness ==
    /\ handler = "GetActiveSites" /\ response.status = 200
    /\ response.body.totalActiveSites = 1
    /\ Cardinality(sites) = 2
    /\ response.body.totalRecords = 2
    /\ \E i \in DOMAIN metricdata : IsNull(metricdata[i].siteid)

(* C10: ConnectivityTest never calls get_db_connection or the server and
   always answers 200; environment_check.DATABASE_URL is "Set" exactly when
   the variable is present and not empty, "Not set" otherwise. *)
C10_ConnectivityTest ==
    handler = "ConnectivityTest" =>
        /\ pc = "done"
        /\ response.status = 200
        /\ attempts = 0 /\ statements = 0
        /\ conn.state = "none" /\ cursor = "none"
        /\ response.body.environment_check.DATABASE_URL
             = IF UrlSet THEN "Set" ELSE "Not set"

C10_Witness ==
    /\ handler = "ConnectivityTest"
    /\ database_url = Str(<<>>)
    /\ dbFault = "connect"
    /\ response.body.environment_check.DATABASE_URL = "Not set"

=============================================================================
